---- MODULE Spec2Model ----
(***************************************************************************)
(* Edge compile-time context of next-core                                  *)
(* (packages/next-swc/crates/next-core/src/next_edge/context.rs).          *)
(*                                                                         *)
(* Three turbo-tasks functions are modelled: next_edge_defines,            *)
(* next_edge_free_vars and get_edge_resolve_options_context.  Each runs    *)
(* its synchronous code atomically between two suspension points; at a     *)
(* suspension point the awaited collaborator answers Ok or Err, or the     *)
(* task is dropped.                                                        *)
(*                                                                         *)
(* Strings that are split on '.' are sequences of chunks: the chunk "."    *)
(* is the separator character, every other chunk is a non-empty piece of   *)
(* text without a '.'.  A path segment is the sequence of chunks between   *)
(* two separators, a path is a sequence of segments.                       *)
(***************************************************************************)
EXTENDS Integers, Sequences, FiniteSets, TLC

VARIABLES
    task,                     \* the function being run, or "idle"
    pc,                       \* its position
    mode,                     \* argument: NextMode
    project_path,             \* argument: Vc<FileSystemPath>
    define_env,               \* argument: the EnvMap behind Vc<EnvMap>
    ty,                       \* argument: ServerContextType
    next_config,              \* argument: Vc<NextConfig>
    unsupported_runtime_apis, \* local of next_edge_free_vars
    custom_conditions,        \* local of get_edge_resolve_options_context
    resolve_options_context,  \* local of get_edge_resolve_options_context
    awaited,                  \* collaborator calls awaited so far
    failure,                  \* the failure an awaited call answered, if any
    result                    \* what the caller of the task observes

vars == <<task, pc, mode, project_path, define_env, ty, next_config,
          unsupported_runtime_apis, custom_conditions,
          resolve_options_context, awaited, failure, result>>

(***************************************************************************)
(* Bounds and input sets                                                   *)
(***************************************************************************)
MaxEnv == 2

Modes == {"Build", "Development"}

ServerContextTypes ==
    {"AppRSC", "AppRoute", "AppSSR", "Pages", "PagesData", "Middleware"}

ProjectPaths == {"[project]/app", "[project]/packages/web"}

NextConfigs == {"next.config.js"}

NoArg == "-"

Dot == "."

EnvKeys ==
    { <<"process", Dot, "env", Dot, "NODE_ENV">>,
      <<"process", Dot, "env", Dot, "NEXT_RUNTIME">>,
      <<"process", Dot, "env", Dot, "TURBOPACK">>,
      <<"process", Dot, "turbopack">>,
      <<"process">>,
      <<"Buffer">>,
      <<"FOO">>,
      <<"FOO", Dot, "BAR">>,
      <<"FOO", Dot, Dot, "BAR">> }

EnvValues == {"1", "true"}

EnvErrors == {"env read failed"}

RootErrors == {"root resolve failed"}

ForeignErrors == {"foreign condition failed"}

RECURSIVE SeqsUpTo(_)
\* the IndexMap<String, String> values: entries in iteration order, keys unique
SeqsUpTo(n) ==
    IF n = 0 THEN {<< >>}
    ELSE LET shorter == SeqsUpTo(n - 1)
         IN  shorter \cup
             { Append(m, [key |-> k, value |-> v]) :
                 m \in {s \in shorter : Len(s) = n - 1},
                 k \in EnvKeys, v \in EnvValues }

UniqueKeys(m) == \A i, j \in DOMAIN m : m[i].key = m[j].key => i = j

EnvMaps == {m \in SeqsUpTo(MaxEnv) : UniqueKeys(m)}

(***************************************************************************)
(* Results                                                                 *)
(***************************************************************************)
None == [kind |-> "None"]

Ok(v) == [kind |-> "Ok", value |-> v]

Err(e) == [kind |-> "Err", error |-> e]

(***************************************************************************)
(* IndexMap                                                                *)
(***************************************************************************)
HasKey(m, k) == \E i \in DOMAIN m : m[i].key = k

IndexOf(m, k) == CHOOSE i \in DOMAIN m : m[i].key = k

Get(m, k) == m[IndexOf(m, k)].value

Keys(m) == {m[i].key : i \in DOMAIN m}

(***************************************************************************)
(* Define keys and values                                                  *)
(***************************************************************************)
Last(s) == s[Len(s)]

Front(s) == SubSeq(s, 1, Len(s) - 1)

RECURSIVE SplitSkipEmptyFrom(_, _, _, _)
SplitSkipEmptyFrom(s, i, done, cur) ==
    IF i > Len(s)
    THEN IF cur = << >> THEN done ELSE Append(done, cur)
    ELSE IF s[i] = Dot
         THEN SplitSkipEmptyFrom(s, i + 1,
                  IF cur = << >> THEN done ELSE Append(done, cur), << >>)
         ELSE SplitSkipEmptyFrom(s, i + 1, done, Append(cur, s[i]))

\* a split that drops the empty segments
SplitSkipEmpty(s) == SplitSkipEmptyFrom(s, 1, << >>, << >>)

RECURSIVE SplitFrom(_, _, _)
SplitFrom(s, i, acc) ==
    IF i > Len(s) THEN acc
    ELSE IF s[i] = Dot
         THEN SplitFrom(s, i + 1, Append(acc, << >>))
         ELSE SplitFrom(s, i + 1, Append(Front(acc), Append(Last(acc), s[i])))

\* k.split('.').map(|s| s.to_string()).collect(): every '.' starts a new
\* segment, so "" gives one empty segment and "a..b" gives three
Split(s) == SplitFrom(s, 1, << << >> >>)

\* the key a macro builds from the dotted name a.b.c
Path1(a) == << <<a>> >>

Path2(a, b) == << <<a>>, <<b>> >>

Path3(a, b, c) == << <<a>>, <<b>>, <<c>> >>

\* CompileTimeDefineValue
DefineBool(b) == [kind |-> "Bool", text |-> IF b THEN "true" ELSE "false"]

DefineString(s) == [kind |-> "String", text |-> s]

DefineJSONQuoted(v) == [kind |-> "String", text |-> v]

DefineJSON(v) == [kind |-> "JSON", text |-> v]

\* NextMode::node_env
node_env(m) == IF m = "Build" THEN "production" ELSE "development"

\* compile_time_defines!(...) of defines(): the four built-in entries
BuiltinDefines(m) ==
    << [key |-> Path2("process", "turbopack"), value |-> DefineBool(TRUE)],
       [key |-> Path3("process", "env", "NEXT_RUNTIME"),
        value |-> DefineString("edge")],
       [key |-> Path3("process", "env", "NODE_ENV"),
        value |-> DefineString(node_env(m))],
       [key |-> Path3("process", "env", "TURBOPACK"),
        value |-> DefineBool(TRUE)] >>

BuiltinKeys == {Path2("process", "turbopack"),
                Path3("process", "env", "NEXT_RUNTIME"),
                Path3("process", "env", "NODE_ENV"),
                Path3("process", "env", "TURBOPACK")}

IndexMapOrInsertOverwrites(m, k, v) ==
    IF HasKey(m, k)
    THEN [m EXCEPT ![IndexOf(m, k)] = [key |-> k, value |-> v]]
    ELSE Append(m, [key |-> k, value |-> v])

\* IndexMap::entry(k).or_insert_with(|| v): a present key keeps its value
IndexMapOrInsert(m, k, v) ==
    IF HasKey(m, k) THEN m ELSE Append(m, [key |-> k, value |-> v])

RECURSIVE DefinesLoop(_, _, _)
\* for (k, v) in define_env { defines.0.entry(split k).or_insert_with(JSON(v)) }
DefinesLoop(tbl, env, i) ==
    IF i > Len(env) THEN tbl
    ELSE DefinesLoop(
             IndexMapOrInsert(tbl, Split(env[i].key), DefineJSON(env[i].value)),
             env, i + 1)

\* fn defines(mode, define_env) -> CompileTimeDefines
defines(m, env) == DefinesLoop(BuiltinDefines(m), env, 1)

(***************************************************************************)
(* Free variable references                                                *)
(***************************************************************************)
error_message ==
    "A Node.js API is used which is not supported in the Edge Runtime. Learn more: https://nextjs.org/docs/api-reference/edge-runtime"

UnsupportedApiNames ==
    << "clearImmediate", "setImmediate", "BroadcastChannel",
       "ByteLengthQueuingStrategy", "CompressionStream",
       "CountQueuingStrategy", "DecompressionStream", "DomException",
       "MessageChannel", "MessageEvent", "MessagePort",
       "ReadableByteStreamController", "ReadableStreamBYOBRequest",
       "ReadableStreamDefaultController", "TransformStreamDefaultController",
       "WritableStreamDefaultController" >>

\* FreeVarReference
FreeVarError(msg) == [kind |-> "Error", message |-> msg]

FreeVarValue(v) == [kind |-> "Value", value |-> v]

FreeVarModule(request, lookup_path, export) ==
    [kind |-> "EcmaScriptModule", request |-> request,
     lookup_path |-> lookup_path, export |-> export]

\* let unsupported_runtime_apis = match mode { Build => (...), Development => () }
UnsupportedRuntimeApis(m) ==
    IF m = "Build"
    THEN [i \in DOMAIN UnsupportedApiNames |->
             [key |-> Path1(UnsupportedApiNames[i]),
              value |-> FreeVarError(error_message)]]
    ELSE << >>

IndexMapInsertAppends(m, k, v) == Append(m, [key |-> k, value |-> v])

\* IndexMap::insert: replaces the value of a present key in place
IndexMapInsert(m, k, v) ==
    IF HasKey(m, k)
    THEN [m EXCEPT ![IndexOf(m, k)] = [key |-> k, value |-> v]]
    ELSE Append(m, [key |-> k, value |-> v])

RECURSIVE SpreadValues(_, _, _)
\* ..defines(..).into_iter(): map.insert(key.into(), value.into()) per entry
SpreadValues(map, entries, i) ==
    IF i > Len(entries) THEN map
    ELSE SpreadValues(
             IndexMapInsert(map, entries[i].key, FreeVarValue(entries[i].value)),
             entries, i + 1)

RECURSIVE SpreadEntries(_, _, _)
SpreadEntries(map, entries, i) ==
    IF i > Len(entries) THEN map
    ELSE SpreadEntries(IndexMapInsert(map, entries[i].key, entries[i].value),
                       entries, i + 1)

RECURSIVE SpreadFirstSegment(_, _, _)
SpreadFirstSegment(map, entries, i) ==
    IF i > Len(entries) THEN map
    ELSE SpreadFirstSegment(
             IndexMapInsert(map, << entries[i].key[1] >>,
                            FreeVarValue(entries[i].value)),
             entries, i + 1)

BufferModule(p) == FreeVarModule("next/dist/compiled/buffer", p, "Buffer")

ProcessModule(p) ==
    FreeVarModule("next/dist/build/polyfills/process", p, "default")

\* the defines entered under the first segment of their path only
FreeVarsFirstSegment(m, p, env) ==
    IndexMapInsert(
        IndexMapInsert(SpreadFirstSegment(<< >>, defines(m, env), 1),
                       Path1("Buffer"), BufferModule(p)),
        Path1("process"), ProcessModule(p))

\* the error entries spread into the table whatever the mode
FreeVarsErrorsAlways(m, p, env) ==
    SpreadEntries(
        IndexMapInsert(
            IndexMapInsert(SpreadValues(<< >>, defines(m, env), 1),
                           Path1("Buffer"), BufferModule(p)),
            Path1("process"), ProcessModule(p)),
        UnsupportedRuntimeApis("Build"), 1)

\* free_var_references!(..defines(..).into_iter(), Buffer = .., process = ..)
FreeVars(m, p, env) ==
    IndexMapInsert(
        IndexMapInsert(SpreadValues(<< >>, defines(m, env), 1),
                       Path1("Buffer"), BufferModule(p)),
        Path1("process"), ProcessModule(p))

(***************************************************************************)
(* Resolve options                                                         *)
(***************************************************************************)
\* get_next_edge_import_map(project_path, ty, mode, next_config, execution_context)
get_next_edge_import_map(p, t, m, c) ==
    [import_map_of |-> p, ty |-> t, mode |-> m, next_config |-> c,
     execution_context |-> "execution_context"]

\* project_path.root()
Root(p) == [root_of |-> p]

\* foreign_code_context_condition(next_config, project_path)
foreign_code_context_condition(c, p) ==
    [foreign_code_of |-> p, next_config |-> c]

ResolvePlugins(p) ==
    << [plugin |-> "ModuleFeatureReportResolvePlugin", project_path |-> p],
       [plugin |-> "UnsupportedModulesResolvePlugin", project_path |-> p],
       [plugin |-> "NextSharedRuntimeResolvePlugin", project_path |-> p] >>

CustomConditionsAlsoSSR(m, t) ==
    IF t \in {"AppRSC", "AppSSR"}
    THEN <<node_env(m), "edge-light", "worker", "react-server">>
    ELSE <<node_env(m), "edge-light", "worker">>

\* let mut custom_conditions = vec![..]; match ty { AppRSC => push, .. => {} }
CustomConditions(m, t) ==
    LET base == <<node_env(m), "edge-light", "worker">>
    IN  IF t = "AppRSC" THEN Append(base, "react-server") ELSE base

\* ResolveOptionsContext { enable_node_modules, .., ..Default::default() }
BaseResolveOptionsContext(root, conditions, import_map, p) ==
    [enable_node_modules |-> root,
     custom_conditions   |-> conditions,
     import_map          |-> import_map,
     module              |-> TRUE,
     browser             |-> TRUE,
     plugins             |-> ResolvePlugins(p),
     enable_typescript   |-> FALSE,
     enable_react        |-> FALSE,
     rules               |-> << >>]

OuterResolveOptionsContextNested(base, condition) ==
    LET outer == [base EXCEPT !.enable_typescript = TRUE,
                              !.enable_react = TRUE]
    IN  [outer EXCEPT !.rules = << [condition |-> condition,
                                    context |-> outer] >>]

\* ResolveOptionsContext { enable_typescript: true, enable_react: true,
\*     rules: vec![(condition, base.clone().cell())], ..base }
OuterResolveOptionsContext(base, condition) ==
    [base EXCEPT !.enable_typescript = TRUE,
                 !.enable_react = TRUE,
                 !.rules = << [condition |-> condition, context |-> base] >>]

(***************************************************************************)
(* The tasks                                                               *)
(***************************************************************************)
PropagateRecovers(e) == Ok(<< >>)

\* the ? of `x.await?`: the function returns the failure of the awaited call
Propagate(e) == Err(e)

Init ==
    /\ task = "idle"
    /\ pc = "idle"
    /\ mode = NoArg
    /\ project_path = NoArg
    /\ define_env = << >>
    /\ ty = NoArg
    /\ next_config = NoArg
    /\ unsupported_runtime_apis = << >>
    /\ custom_conditions = << >>
    /\ resolve_options_context = None
    /\ awaited = << >>
    /\ failure = None
    /\ result = None

\* next_edge_defines is called and suspends on define_env.await
Call_next_edge_defines ==
    /\ pc = "idle"
    /\ \E m \in Modes, env \in EnvMaps :
         /\ mode' = m
         /\ define_env' = env
    /\ task' = "next_edge_defines"
    /\ pc' = "await_define_env"
    /\ UNCHANGED <<project_path, ty, next_config, unsupported_runtime_apis,
                   custom_conditions, resolve_options_context, awaited,
                   failure, result>>

\* define_env.await answers the map: Ok(defines(mode, &map).cell())
next_edge_defines_Ok ==
    /\ task = "next_edge_defines"
    /\ pc = "await_define_env"
    /\ awaited' = Append(awaited, "define_env")
    /\ result' = Ok(defines(mode, define_env))
    /\ pc' = "returned"
    /\ UNCHANGED <<task, mode, project_path, define_env, ty, next_config,
                   unsupported_runtime_apis, custom_conditions,
                   resolve_options_context, failure>>

\* define_env.await answers a failure
next_edge_defines_Err ==
    /\ task = "next_edge_defines"
    /\ pc = "await_define_env"
    /\ \E e \in EnvErrors :
         /\ failure' = Err(e)
         /\ result' = Propagate(e)
    /\ awaited' = Append(awaited, "define_env")
    /\ pc' = "returned"
    /\ UNCHANGED <<task, mode, project_path, define_env, ty, next_config,
                   unsupported_runtime_apis, custom_conditions,
                   resolve_options_context>>

\* next_edge_free_vars is called, builds unsupported_runtime_apis and
\* suspends on define_env.await
Call_next_edge_free_vars ==
    /\ pc = "idle"
    /\ \E m \in Modes, p \in ProjectPaths, env \in EnvMaps :
         /\ mode' = m
         /\ project_path' = p
         /\ define_env' = env
         /\ unsupported_runtime_apis' = UnsupportedRuntimeApis(m)
    /\ task' = "next_edge_free_vars"
    /\ pc' = "await_define_env"
    /\ UNCHANGED <<ty, next_config, custom_conditions,
                   resolve_options_context, awaited, failure, result>>

\* define_env.await answers the map: Ok(free_var_references!(..)).cell()
next_edge_free_vars_Ok ==
    /\ task = "next_edge_free_vars"
    /\ pc = "await_define_env"
    /\ awaited' = Append(awaited, "define_env")
    /\ result' = Ok(FreeVars(mode, project_path, define_env))
    /\ pc' = "returned"
    /\ UNCHANGED <<task, mode, project_path, define_env, ty, next_config,
                   unsupported_runtime_apis, custom_conditions,
                   resolve_options_context, failure>>

\* define_env.await answers a failure
next_edge_free_vars_Err ==
    /\ task = "next_edge_free_vars"
    /\ pc = "await_define_env"
    /\ \E e \in EnvErrors :
         /\ failure' = Err(e)
         /\ result' = Propagate(e)
    /\ awaited' = Append(awaited, "define_env")
    /\ pc' = "returned"
    /\ UNCHANGED <<task, mode, project_path, define_env, ty, next_config,
                   unsupported_runtime_apis, custom_conditions,
                   resolve_options_context>>

\* get_edge_resolve_options_context is called, builds custom_conditions and
\* suspends on project_path.root().resolve().await
Call_get_edge_resolve_options_context ==
    /\ pc = "idle"
    /\ \E p \in ProjectPaths, t \in ServerContextTypes, m \in Modes,
          c \in NextConfigs :
         /\ project_path' = p
         /\ ty' = t
         /\ mode' = m
         /\ next_config' = c
         /\ custom_conditions' = CustomConditions(m, t)
    /\ task' = "get_edge_resolve_options_context"
    /\ pc' = "await_root"
    /\ UNCHANGED <<define_env, unsupported_runtime_apis,
                   resolve_options_context, awaited, failure, result>>

\* the root resolves: the base context is built, then the function suspends
\* on foreign_code_context_condition(..).await
get_edge_resolve_options_context_RootOk ==
    /\ task = "get_edge_resolve_options_context"
    /\ pc = "await_root"
    /\ awaited' = Append(awaited, "root")
    /\ resolve_options_context' =
         BaseResolveOptionsContext(
             Root(project_path), custom_conditions,
             get_next_edge_import_map(project_path, ty, mode, next_config),
             project_path)
    /\ pc' = "await_foreign"
    /\ UNCHANGED <<task, mode, project_path, define_env, ty, next_config,
                   unsupported_runtime_apis, custom_conditions, failure,
                   result>>

\* resolving the root fails
get_edge_resolve_options_context_RootErr ==
    /\ task = "get_edge_resolve_options_context"
    /\ pc = "await_root"
    /\ \E e \in RootErrors :
         /\ failure' = Err(e)
         /\ result' = Propagate(e)
    /\ awaited' = Append(awaited, "root")
    /\ pc' = "returned"
    /\ UNCHANGED <<task, mode, project_path, define_env, ty, next_config,
                   unsupported_runtime_apis, custom_conditions,
                   resolve_options_context>>

\* the foreign code condition is computed: Ok(ResolveOptionsContext{..}.cell())
get_edge_resolve_options_context_ForeignOk ==
    /\ task = "get_edge_resolve_options_context"
    /\ pc = "await_foreign"
    /\ awaited' = Append(awaited, "foreign")
    /\ result' = Ok(OuterResolveOptionsContext(
                        resolve_options_context,
                        foreign_code_context_condition(next_config,
                                                       project_path)))
    /\ pc' = "returned"
    /\ UNCHANGED <<task, mode, project_path, define_env, ty, next_config,
                   unsupported_runtime_apis, custom_conditions,
                   resolve_options_context, failure>>

\* computing the foreign code condition fails
get_edge_resolve_options_context_ForeignErr ==
    /\ task = "get_edge_resolve_options_context"
    /\ pc = "await_foreign"
    /\ \E e \in ForeignErrors :
         /\ failure' = Err(e)
         /\ result' = Propagate(e)
    /\ awaited' = Append(awaited, "foreign")
    /\ pc' = "returned"
    /\ UNCHANGED <<task, mode, project_path, define_env, ty, next_config,
                   unsupported_runtime_apis, custom_conditions,
                   resolve_options_context>>

\* the task is dropped while it is suspended on an await
Cancel ==
    /\ pc \in {"await_define_env", "await_root", "await_foreign"}
    /\ pc' = "cancelled"
    /\ UNCHANGED <<task, mode, project_path, define_env, ty, next_config,
                   unsupported_runtime_apis, custom_conditions,
                   resolve_options_context, awaited, failure, result>>

Next ==
    \/ Call_next_edge_defines
    \/ next_edge_defines_Ok
    \/ next_edge_defines_Err
    \/ Call_next_edge_free_vars
    \/ next_edge_free_vars_Ok
    \/ next_edge_free_vars_Err
    \/ Call_get_edge_resolve_options_context
    \/ get_edge_resolve_options_context_RootOk
    \/ get_edge_resolve_options_context_RootErr
    \/ get_edge_resolve_options_context_ForeignOk
    \/ get_edge_resolve_options_context_ForeignErr
    \/ Cancel

Spec == Init /\ [][Next]_vars

(***************************************************************************)
(* Properties                                                              *)
(***************************************************************************)
DefinesReturned ==
    task = "next_edge_defines" /\ pc = "returned" /\ result.kind = "Ok"

FreeVarsReturned ==
    task = "next_edge_free_vars" /\ pc = "returned" /\ result.kind = "Ok"

ResolveReturned ==
    /\ task = "get_edge_resolve_options_context"
    /\ pc = "returned"
    /\ result.kind = "Ok"

\* the entries of table tbl stored under key k
EntriesAt(tbl, k) == {i \in DOMAIN tbl : tbl[i].key = k}

\* key k is stored exactly once in tbl, with value v
MapsTo(tbl, k, v) ==
    /\ Cardinality(EntriesAt(tbl, k)) = 1
    /\ \A i \in EntriesAt(tbl, k) : tbl[i].value = v

AsMap(tbl) == {tbl[i] : i \in DOMAIN tbl}

EnvPaths == {Split(define_env[i].key) : i \in DOMAIN define_env}

\* C1: the defines table maps process.turbopack, process.env.NEXT_RUNTIME,
\* process.env.NODE_ENV and process.env.TURBOPACK to true, "edge", the node
\* env name of the mode and true, whatever define_env holds for those keys.
C1_BuiltinsAlwaysWin ==
    DefinesReturned =>
        /\ MapsTo(result.value, Path2("process", "turbopack"),
                  [kind |-> "Bool", text |-> "true"])
        /\ MapsTo(result.value, Path3("process", "env", "NEXT_RUNTIME"),
                  [kind |-> "String", text |-> "edge"])
        /\ MapsTo(result.value, Path3("process", "env", "NODE_ENV"),
                  [kind |-> "String", text |-> node_env(mode)])
        /\ MapsTo(result.value, Path3("process", "env", "TURBOPACK"),
                  [kind |-> "Bool", text |-> "true"])

\* a defines table built from a define_env that names a built-in key
C1_Witness ==
    /\ DefinesReturned
    /\ \E i \in DOMAIN define_env :
         /\ define_env[i].key = <<"process", Dot, "env", Dot, "NODE_ENV">>
         /\ define_env[i].value = "1"

\* C2: in Build mode the free variable table holds, for every unsupported
\* API name, an Error entry with the fixed message.
C2_BuildHasErrorEntries ==
    (FreeVarsReturned /\ mode = "Build") =>
        \A n \in DOMAIN UnsupportedApiNames :
            \E i \in DOMAIN result.value :
                /\ result.value[i].key = Path1(UnsupportedApiNames[n])
                /\ result.value[i].value.kind = "Error"
                /\ result.value[i].value.message = error_message

\* C3: in Development mode the free variable table holds no Error entry, for
\* an unsupported API name or any other key.
C3_DevelopmentHasNoErrorEntry ==
    (FreeVarsReturned /\ mode = "Development") =>
        \A i \in DOMAIN result.value : result.value[i].value.kind # "Error"

\* a free variable table returned in Development mode
C3_Witness ==
    FreeVarsReturned /\ mode = "Development" /\ Len(result.value) > 2

\* C4: the free variable table has exactly one entry for Buffer and one for
\* process, the module references looked up from project_path, also when
\* define_env has the key Buffer or process.
C4_BufferAndProcessModules ==
    FreeVarsReturned =>
        /\ MapsTo(result.value, Path1("Buffer"),
                  [kind |-> "EcmaScriptModule",
                   request |-> "next/dist/compiled/buffer",
                   lookup_path |-> project_path,
                   export |-> "Buffer"])
        /\ MapsTo(result.value, Path1("process"),
                  [kind |-> "EcmaScriptModule",
                   request |-> "next/dist/build/polyfills/process",
                   lookup_path |-> project_path,
                   export |-> "default"])

\* a free variable table built from a define_env with the keys Buffer and
\* process
C4_Witness ==
    /\ FreeVarsReturned
    /\ \E i, j \in DOMAIN define_env :
         /\ define_env[i].key = <<"Buffer">>
         /\ define_env[j].key = <<"process">>

\* C5: the custom conditions of the returned context are the node env name,
\* "edge-light", "worker" and, for AppRSC only, "react-server".
C5_CustomConditions ==
    ResolveReturned =>
        /\ ty = "AppRSC" =>
             result.value.custom_conditions =
                 <<node_env(mode), "edge-light", "worker", "react-server">>
        /\ ty # "AppRSC" =>
             result.value.custom_conditions =
                 <<node_env(mode), "edge-light", "worker">>
        /\ (ty = "AppRSC") <=>
             (\E i \in DOMAIN result.value.custom_conditions :
                 result.value.custom_conditions[i] = "react-server")

\* a context returned for AppRSC
C5_Witness == ResolveReturned /\ ty = "AppRSC" /\ mode = "Build"

Permuted(env, f) == [i \in DOMAIN env |-> env[f[i]]]

\* C6: the defines table, as a mapping from path to value, is the same for
\* every order in which the entries of define_env are iterated.
C6_OrderIndependent ==
    DefinesReturned =>
        \A f \in Permutations(DOMAIN define_env) :
            AsMap(defines(mode, Permuted(define_env, f))) = AsMap(result.value)

\* a defines table whose entries come out in another order when define_env
\* is iterated in another order
C6_Witness ==
    /\ DefinesReturned
    /\ Len(define_env) >= 2
    /\ \E f \in Permutations(DOMAIN define_env) :
         defines(mode, Permuted(define_env, f)) # result.value

\* C7: the returned context enables typescript and react and has one rule:
\* the foreign code condition with the base context, which has the same
\* node modules root, conditions, import map, module, browser and plugins,
\* typescript and react not enabled, and no rules.
C7_OneForeignRuleWithBase ==
    ResolveReturned =>
        LET outer == result.value
        IN  /\ outer.enable_typescript
            /\ outer.enable_react
            /\ outer.module
            /\ outer.browser
            /\ outer.enable_node_modules = [root_of |-> project_path]
            /\ Len(outer.plugins) = 3
            /\ outer.plugins[1].plugin = "ModuleFeatureReportResolvePlugin"
            /\ outer.plugins[2].plugin = "UnsupportedModulesResolvePlugin"
            /\ outer.plugins[3].plugin = "NextSharedRuntimeResolvePlugin"
            /\ \A i \in 1..3 : outer.plugins[i].project_path = project_path
            /\ Len(outer.rules) = 1
            /\ outer.rules[1].condition =
                   [foreign_code_of |-> project_path,
                    next_config |-> next_config]
            /\ LET base == outer.rules[1].context
               IN  /\ base.enable_node_modules = outer.enable_node_modules
                   /\ base.custom_conditions = outer.custom_conditions
                   /\ base.import_map = outer.import_map
                   /\ base.module
                   /\ base.browser
                   /\ base.plugins = outer.plugins
                   /\ ~base.enable_typescript
                   /\ ~base.enable_react
                   /\ base.rules = << >>

\* a context returned after both awaited calls answered
C7_Witness == ResolveReturned /\ awaited = <<"root", "foreign">>

NoDuplicates(s) == \A i, j \in DOMAIN s : s[i] = s[j] => i = j

\* the value of a finished task has every part the function puts in it
Complete ==
    CASE task = "next_edge_defines" ->
           /\ BuiltinKeys \subseteq Keys(result.value)
           /\ EnvPaths \subseteq Keys(result.value)
      [] task = "next_edge_free_vars" ->
           /\ {Path1("Buffer"), Path1("process")} \subseteq Keys(result.value)
           /\ BuiltinKeys \subseteq Keys(result.value)
           /\ (EnvPaths \ {Path1("Buffer"), Path1("process")})
                  \subseteq Keys(result.value)
      [] task = "get_edge_resolve_options_context" ->
           /\ DOMAIN result.value =
                  {"enable_node_modules", "custom_conditions", "import_map",
                   "module", "browser", "plugins", "enable_typescript",
                   "enable_react", "rules"}
           /\ Len(result.value.custom_conditions) >= 3
           /\ Len(result.value.plugins) = 3
           /\ Len(result.value.rules) = 1
      [] OTHER -> FALSE

\* C8: the caller of a task sees no result until the task returns; a task
\* that returns after an awaited call failed returns that failure, at once
\* and without awaiting the call again; a task that returns otherwise
\* returns a complete value; a dropped task shows no result.
C8_AtomicAndPropagating ==
    /\ pc # "returned" => result.kind = "None"
    /\ failure.kind = "Err" =>
         /\ pc = "returned"
         /\ result.kind = "Err"
         /\ result.error = failure.error
    /\ (pc = "returned" /\ failure.kind = "None") =>
         /\ result.kind = "Ok"
         /\ Complete
    /\ NoDuplicates(awaited)

\* the second awaited call of get_edge_resolve_options_context failed, after
\* the base context was built
C8_Witness ==
    /\ task = "get_edge_resolve_options_context"
    /\ pc = "returned"
    /\ failure.kind = "Err"
    /\ awaited = <<"root", "foreign">>
    /\ resolve_options_context.rules = << >>

\* C9: the keys of the defines table are the four built-in paths and the
\* paths of the define_env keys; a path that is not built-in maps to the
\* JSON value with the text of its variable.
C9_KeysAndJsonValues ==
    DefinesReturned =>
        /\ Keys(result.value) = BuiltinKeys \cup EnvPaths
        /\ \A i \in DOMAIN define_env :
             Split(define_env[i].key) \notin BuiltinKeys =>
                 MapsTo(result.value, Split(define_env[i].key),
                        [kind |-> "JSON", text |-> define_env[i].value])
        /\ define_env = << >> =>
             /\ Len(result.value) = 4
             /\ Keys(result.value) = BuiltinKeys
        /\ \A i \in DOMAIN define_env :
             define_env[i].key = <<"FOO", Dot, "BAR">> =>
                 MapsTo(result.value, Path2("FOO", "BAR"),
                        [kind |-> "JSON", text |-> define_env[i].value])

\* a defines table built from FOO.BAR = 1
C9_Witness ==
    /\ DefinesReturned
    /\ mode = "Build"
    /\ define_env = << [key |-> <<"FOO", Dot, "BAR">>, value |-> "1"] >>

NotModuleKey(k) == k \notin {Path1("Buffer"), Path1("process")}

====
